---- MODULE Spec2Model ----
(***************************************************************************)
(* Retrieval-augmented conversational agent of unified-ops:                *)
(*   app/agents/rag_service.py  (RAGService, the per-workspace vector      *)
(*                               stores, chunking, search)                 *)
(*   app/agents/llm_agent.py    (ConversationAgent, the LangGraph          *)
(*                               workflow behind process_message)          *)
(*   app/api/agent_config.py    (PUT /agent/config, POST                   *)
(*                               /agent/rag/regenerate)                    *)
(*   app/api/public_chat.py     (POST /public/chat/{token}/send)           *)
(* Texts are sequences of one-character strings.  A provider call is a     *)
(* nondeterministic choice between failing and returning a value.          *)
(***************************************************************************)
EXTENDS Integers, Sequences, FiniteSets, TLC

VARIABLES
    vector_stores,  \* RAGService.vector_stores: workspace_id -> store (a dict)
    clock,          \* logical time read by datetime.utcnow()
    bld,            \* the configuration API's call into RAGService (build/update/delete)
    srch,           \* one frame of RAGService.search per caller
    run,            \* one ConversationAgent.process_message invocation
    db,             \* the database: Workspace rows and one conversation's messages
    cfg,            \* the frame of a configuration API handler
    req,            \* one frame of send_chat_message per request
    calc            \* the arguments and results of calls under study

vars == <<vector_stores, clock, bld, srch, run, db, cfg, req, calc>>

----------------------------------------------------------------------------
(* Bounds of the model *)

MaxOps == 2         \* index operations issued by the configuration API
MaxSearches == 1    \* direct search calls (the test-search endpoint)
MaxRuns == 1        \* process_message invocations
MaxTopK == 2        \* largest top_k a direct search call passes
MaxOver == 1        \* how far messages_count goes beyond the limit
MaxUnder == 1       \* how far messages_count stays below the limit
MaxRequests == 2    \* send requests to the one conversation
MaxPrior == 2       \* how far below the limit the conversation starts
MaxPuts == 2        \* configuration API requests
MaxTextLen == 4     \* longest text given to the chunker, all texts up to it
MaxStored == 4      \* most chunks in the index the agent searches
MaxChunkSize == 4   \* largest small chunk_size given to the chunker

(* Program constants *)

DefaultChunkSize == 500
DefaultTopK == 3
AgentTopK == 3
MAX_MESSAGES == 14
SendLimit == 14
MaxContentLength == 2000

Workspaces == {1, 2}
Callers == {"api", "agent"}
Requests == 1..MaxRequests

----------------------------------------------------------------------------
(* Text helpers: Python str methods on sequences of characters *)

Rep(c, n) == [i \in 1..n |-> c]

Min(S) == CHOOSE m \in S : \A o \in S : m <= o
Max(S) == CHOOSE m \in S : \A o \in S : m >= o

IsSpace(c) == c \in {" ", "\n", "\t"}

\* str.strip(): drop the leading and the trailing whitespace
Strip(s) ==
    IF \A i \in 1..Len(s) : IsSpace(s[i]) THEN <<>>
    ELSE LET first == CHOOSE i \in 1..Len(s) :
                          ~IsSpace(s[i]) /\ \A j \in 1..(i - 1) : IsSpace(s[j])
             last == CHOOSE i \in 1..Len(s) :
                          ~IsSpace(s[i]) /\ \A j \in (i + 1)..Len(s) : IsSpace(s[j])
         IN  SubSeq(s, first, last)

\* str.replace(a, b) for one-character a and b
Replace(s, a, b) == [i \in 1..Len(s) |-> IF s[i] = a THEN b ELSE s[i]]

\* str.split('. '): scan left to right for the next occurrence of the separator
RECURSIVE SplitFrom(_, _)
SplitFrom(s, start) ==
    LET P == {i \in start..(Len(s) - 1) : s[i] = "." /\ s[i + 1] = " "}
    IN  IF P = {} THEN <<SubSeq(s, start, Len(s))>>
        ELSE <<SubSeq(s, start, Min(P) - 1)>> \o SplitFrom(s, Min(P) + 2)

----------------------------------------------------------------------------
(* RAGService._chunk_text *)

\* a variant that forgets the chunk still being filled when the sentences end
RECURSIVE ChunkLoop_drop(_, _, _, _)
ChunkLoop_drop(sentences, chunks, current_chunk, chunk_size) ==
    IF sentences = <<>>
    THEN chunks
    ELSE LET sentence == Strip(Head(sentences))
         IN  IF sentence = <<>>
             THEN ChunkLoop_drop(Tail(sentences), chunks, current_chunk, chunk_size)
             ELSE IF Len(current_chunk) + Len(sentence) > chunk_size /\ current_chunk # <<>>
                  THEN ChunkLoop_drop(Tail(sentences), Append(chunks, Strip(current_chunk)),
                                      sentence \o <<".", " ">>, chunk_size)
                  ELSE ChunkLoop_drop(Tail(sentences), chunks,
                                      current_chunk \o sentence \o <<".", " ">>, chunk_size)

RECURSIVE ChunkLoop(_, _, _, _)
ChunkLoop(sentences, chunks, current_chunk, chunk_size) ==
    IF sentences = <<>>
    THEN IF current_chunk # <<>> THEN Append(chunks, Strip(current_chunk)) ELSE chunks
    ELSE LET sentence == Strip(Head(sentences))
         IN  IF sentence = <<>>
             THEN ChunkLoop(Tail(sentences), chunks, current_chunk, chunk_size)
             ELSE IF Len(current_chunk) + Len(sentence) > chunk_size /\ current_chunk # <<>>
                  THEN ChunkLoop(Tail(sentences), Append(chunks, Strip(current_chunk)),
                                 sentence \o <<".", " ">>, chunk_size)
                  ELSE ChunkLoop(Tail(sentences), chunks,
                                 current_chunk \o sentence \o <<".", " ">>, chunk_size)

chunk_text(text, chunk_size) ==
    IF text = <<>> THEN <<>>
    ELSE ChunkLoop(SplitFrom(Replace(text, "\n", " "), 1), <<>>, <<>>, chunk_size)

----------------------------------------------------------------------------
(* RAGService._cosine_similarity
   The float dot/(norm1*norm2) is kept exactly as the rational
   sign(dot) * dot^2 / (|vec1|^2 * |vec2|^2), i.e. cos*|cos|, which orders and
   equates similarities as the cosines themselves do. *)

Dot(vec1, vec2) ==
    LET RECURSIVE Sum(_)
        Sum(i) == IF i = 0 THEN 0 ELSE vec1[i] * vec2[i] + Sum(i - 1)
    IN  Sum(Len(vec1))

NormSq(vec) == Dot(vec, vec)

\* np.dot of two 1-D arrays of different lengths raises ValueError
DotRaises(vec1, vec2) == Len(vec1) # Len(vec2)

Zero == [num |-> 0, den |-> 1]

\* a variant without the zero-norm test: 0/0
cosine_similarity_nocheck(vec1, vec2) ==
    LET dot_product == Dot(vec1, vec2)
    IN  [num |-> IF dot_product >= 0 THEN dot_product * dot_product
                 ELSE -(dot_product * dot_product),
         den |-> NormSq(vec1) * NormSq(vec2)]

cosine_similarity(vec1, vec2) ==
    LET dot_product == Dot(vec1, vec2)
        norm1 == NormSq(vec1)
        norm2 == NormSq(vec2)
    IN  IF norm1 = 0 \/ norm2 = 0
        THEN Zero
        ELSE [num |-> IF dot_product >= 0 THEN dot_product * dot_product
                      ELSE -(dot_product * dot_product),
              den |-> norm1 * norm2]

SimGT(a, b) == a.num * b.den > b.num * a.den
SimEQ(a, b) == a.num * b.den = b.num * a.den

----------------------------------------------------------------------------
(* RAGService.search, lines 137-152: rank the chunks of a store *)

\* list.sort(key=similarity, reverse=True) is stable: an element goes after
\* every element whose key is greater than or equal to its own
\* an unstable variant: an element goes before the elements of equal key
RECURSIVE InsertDesc_ge(_, _)
InsertDesc_ge(sorted, x) ==
    IF sorted = <<>> THEN <<x>>
    ELSE IF ~SimGT(Head(sorted).similarity, x.similarity)
         THEN <<x>> \o sorted
         ELSE <<Head(sorted)>> \o InsertDesc_ge(Tail(sorted), x)

RECURSIVE InsertDesc(_, _)
InsertDesc(sorted, x) ==
    IF sorted = <<>> THEN <<x>>
    ELSE IF SimGT(x.similarity, Head(sorted).similarity)
         THEN <<x>> \o sorted
         ELSE <<Head(sorted)>> \o InsertDesc(Tail(sorted), x)

RECURSIVE SortDesc(_)
SortDesc(seq) ==
    IF seq = <<>> THEN <<>>
    ELSE InsertDesc(SortDesc(SubSeq(seq, 1, Len(seq) - 1)), seq[Len(seq)])

\* a variant that does not cut the list
SliceTo_all(seq, k) == seq

\* seq[:k]
SliceTo(seq, k) ==
    IF k >= 0 THEN SubSeq(seq, 1, IF k < Len(seq) THEN k ELSE Len(seq))
    ELSE SubSeq(seq, 1, IF Len(seq) + k > 0 THEN Len(seq) + k ELSE 0)

Similarities(store, query_vector) ==
    [i \in 1..Len(store.vectors) |->
        [text |-> store.vectors[i].text,
         similarity |-> cosine_similarity(query_vector, store.vectors[i].embedding),
         metadata |-> store.vectors[i].metadata]]

SearchRaises(store, query_vector) ==
    \E i \in 1..Len(store.vectors) : DotRaises(query_vector, store.vectors[i].embedding)

RankTopK(store, query_vector, top_k) ==
    SliceTo(SortDesc(Similarities(store, query_vector)), top_k)

----------------------------------------------------------------------------
(* Inputs *)

\* what the Embedding Provider can return for a text; generate_embedding
\* turns a failed call into the empty list
Failed == <<>>
EmbedVectors == {<<1, 0>>, <<0, 1>>, <<1>>}
EmbedOutcomes == EmbedVectors \cup {Failed}

T_one == <<"H", "i", ".", " ", "Y", "o", ".">>
T_long == Rep("a", DefaultChunkSize - 1) \o <<".", " ", "b", ".">>
CreateTexts == {<<>>, T_one}
UpdateTexts == {<<>>, T_one, T_long}
\* the knowledge text and the chunk embeddings while the agent is watched
AgentTexts == {T_long}
BuildEmbeddings == {Failed, <<1, 0>>, <<0, 1>>}

\* texts and sizes for the chunker: every text over Alphabet up to MaxTextLen,
\* and "We are open 9-5. Prices start at $20."
Alphabet == {"a", ".", " ", "\n"}
ScenarioA ==
    <<"W", "e", " ", "a", "r", "e", " ", "o", "p", "e", "n", " ", "9", "-",
      "5", ".", " ", "P", "r", "i", "c", "e", "s", " ", "s", "t", "a", "r",
      "t", " ", "a", "t", " ", "$", "2", "0", ".">>
ChunkerTexts == UNION {[1..n -> Alphabet] : n \in 0..MaxTextLen} \cup {ScenarioA}
ChunkSizes == (1..MaxChunkSize) \cup {DefaultChunkSize}

\* a fixed index for searching: chunk texts and fixed-dimension embeddings
MaxChunks == 3
SearchVectors == {<<1, 0>>, <<0, 1>>, <<1, 1>>, <<2, 1>>, <<-1, 0>>, <<0, 0>>}
ChunkText(i) == <<"c", CASE i = 0 -> "0" [] i = 1 -> "1" [] i = 2 -> "2" [] i = 3 -> "3"
                                 [] OTHER -> "n">>

----------------------------------------------------------------------------
(* State *)

NoStore == [vectors |-> <<>>, created_at |-> 0, num_chunks |-> 0]

BldInit ==
    [pc |-> "idle", op |-> "none", ws |-> 1, text |-> <<>>, chunks |-> <<>>, outcomes |-> <<>>,
     vectors |-> <<>>, ret |-> 0, had_old |-> FALSE, old |-> NoStore, ops |-> 0]

SrchInit ==
    [pc |-> "idle", ws |-> 1, top_k |-> DefaultTopK, store |-> NoStore,
     query_embedding |-> <<>>, result |-> <<>>, status |-> "none", embed_calls |-> 0,
     saw |-> "none", replacing |-> FALSE, full |-> TRUE, calls |-> 0]

\* Optional[...] values: None, or a value
None(empty) == [some |-> FALSE, v |-> empty]
Some(v) == [some |-> TRUE, v |-> v]
\* Python truth of an optional string: neither None nor empty
Truthy(o, empty) == o.some /\ o.v # empty
\* a or b
Or(a, b, empty) == IF Truthy(a, empty) THEN a ELSE b

\* a Workspace row, as far as the agent's configuration goes
WorkspaceRow(name, rag_content, agent_system_prompt, gemini_api_key) ==
    [name |-> name, rag_content |-> rag_content,
     agent_system_prompt |-> agent_system_prompt, gemini_api_key |-> gemini_api_key]

NewWorkspace == WorkspaceRow("Acme", None(<<>>), None(<<>>), None(""))

\* the database: the Workspace rows, the Message rows of the conversation (in
\* insertion order) and the process environment's GEMINI_API_KEY
DbInit == [workspace |-> [w \in Workspaces |-> NewWorkspace], messages |-> <<>>,
           env_key |-> None("")]

NoData == [rag_content |-> None(<<>>), system_prompt |-> None(<<>>),
           gemini_api_key |-> None("")]

CfgInit == [pc |-> "idle", handler |-> "none", w |-> 1, data |-> NoData,
            row |-> NewWorkspace, builds |-> <<>>, status |-> 0, calls |-> 0]

\* arguments of the call under study (a text and chunk_size, or two vectors), its
\* result, and the results of the index operations completed so far
CalcInit == [pc |-> "none", text |-> <<>>, chunk_size |-> DefaultChunkSize,
             vec1 |-> <<>>, vec2 |-> <<>>, similarity |-> Zero, raised |-> FALSE,
             log |-> <<>>]

ReqInit == [pc |-> "idle", customer_message_count |-> 0, status |-> 0,
            messages_remaining |-> 0, prior |-> 0, stored |-> FALSE,
            skipped |-> FALSE, ran |-> FALSE, outcome |-> "none", replied |-> FALSE]

----------------------------------------------------------------------------
(* RAGService.create_vector_store / update_store / delete_store *)

\* a build for workspace w is under way that began with w holding an index of
\* at least one chunk
Replacing(w) ==
    bld.pc \in {"embed", "store"} /\ bld.ws = w /\ bld.had_old /\ bld.old.num_chunks > 0

\* create_vector_store, lines 53-59: chunk the text, start with no vectors
StartBuild(op, w, text, chunk_size, stores) ==
    /\ LET chunks == chunk_text(text, chunk_size)
       IN  bld' = [BldInit EXCEPT !.pc = IF chunks = <<>> THEN "store" ELSE "embed",
                                  !.op = op, !.ws = w, !.text = text, !.chunks = chunks,
                                  !.had_old = w \in DOMAIN vector_stores,
                                  !.old = IF w \in DOMAIN vector_stores
                                          THEN vector_stores[w] ELSE NoStore,
                                  !.ops = bld.ops + 1]
    /\ vector_stores' = stores
    /\ clock' = clock + 1

\* create_vector_store(workspace_id, business_content, api_key): every caller
\* leaves chunk_size at its default
CreateVectorStore(w, text) ==
    /\ bld.pc = "idle" /\ bld.ops < MaxOps
    /\ StartBuild("create", w, text, DefaultChunkSize, vector_stores)
    /\ UNCHANGED <<srch, run, db, cfg, req, calc>>

\* create_vector_store(workspace_id, business_content, api_key, chunk_size) with the
\* text and the chunk_size under study
CreateVectorStoreSized ==
    /\ calc.pc = "chunk" /\ bld.pc = "idle" /\ bld.ops = 0
    /\ StartBuild("create", 1, calc.text, calc.chunk_size, vector_stores)
    /\ UNCHANGED <<srch, run, db, cfg, req, calc>>

\* a variant that clears the whole dict
Without_all(stores, w) == <<>>

\* delete_store, lines 179-180
Without(stores, w) == [k \in (DOMAIN stores) \ {w} |-> stores[k]]

\* update_store: delete_store, then create_vector_store
UpdateStore(w, text) ==
    /\ bld.pc = "idle" /\ bld.ops < MaxOps
    /\ StartBuild("update", w, text, DefaultChunkSize, Without(vector_stores, w))
    /\ UNCHANGED <<srch, run, db, cfg, req, calc>>

DeleteStore(w) ==
    /\ bld.pc = "idle" /\ bld.ops < MaxOps
    /\ vector_stores' = Without(vector_stores, w)
    /\ bld' = [BldInit EXCEPT !.pc = "done", !.op = "delete", !.ws = w,
                              !.had_old = w \in DOMAIN vector_stores,
                              !.old = IF w \in DOMAIN vector_stores
                                      THEN vector_stores[w] ELSE NoStore,
                              !.ops = bld.ops + 1]
    /\ UNCHANGED <<clock, srch, run, db, cfg, req, calc>>

\* create_vector_store, lines 60-71: one generate_embedding call for the next chunk
Vector(i, chunk, embedding, now) ==
    [id |-> i, text |-> chunk, embedding |-> embedding,
     metadata |-> [chunk_index |-> i, created_at |-> now]]

EmbedChunk(embedding) ==
    /\ bld.pc = "embed"
    /\ LET i == Len(bld.outcomes)             \* enumerate() index, from 0
           chunk == bld.chunks[i + 1]
       IN  bld' = [bld EXCEPT !.outcomes = Append(@, embedding),
                              !.vectors = IF embedding # <<>>
                                          THEN Append(@, Vector(i, chunk, embedding, clock))
                                          ELSE @,
                              !.pc = IF i + 1 = Len(bld.chunks) THEN "store" ELSE "embed"]
    /\ UNCHANGED <<vector_stores, clock, srch, run, db, cfg, req, calc>>

\* a variant that appends the new vectors to those of the existing store
Put_merge(stores, w, store) ==
    [k \in (DOMAIN stores) \cup {w} |->
        IF k # w THEN stores[k]
        ELSE IF w \in DOMAIN stores
        THEN [store EXCEPT !.vectors = stores[w].vectors \o @,
                           !.num_chunks = stores[w].num_chunks + @]
        ELSE store]

\* create_vector_store, lines 73-81: one dict assignment, then return len(vectors)
Put(stores, w, store) ==
    [k \in (DOMAIN stores) \cup {w} |-> IF k = w THEN store ELSE stores[k]]

NewStore(vectors, now) ==
    [vectors |-> vectors, created_at |-> now, num_chunks |-> Len(vectors)]

\* a variant that returns the number of chunks instead of the number of vectors
StoreVectors_chunks ==
    /\ bld.pc = "store"
    /\ vector_stores' = Put(vector_stores, bld.ws, NewStore(bld.vectors, clock))
    /\ bld' = [bld EXCEPT !.pc = "done", !.ret = Len(bld.chunks)]
    /\ UNCHANGED <<clock, srch, run, db, cfg, req, calc>>

\* a variant that keeps the vectors of the index the build began with
StoreVectors_grow ==
    /\ bld.pc = "store"
    /\ vector_stores' = Put(vector_stores, bld.ws,
                            NewStore(bld.old.vectors \o bld.vectors, clock))
    /\ bld' = [bld EXCEPT !.pc = "done", !.ret = Len(bld.old.vectors \o bld.vectors)]
    /\ UNCHANGED <<clock, srch, run, db, cfg, req, calc>>

StoreVectors ==
    /\ bld.pc = "store"
    /\ vector_stores' = Put(vector_stores, bld.ws, NewStore(bld.vectors, clock))
    /\ bld' = [bld EXCEPT !.pc = "done", !.ret = Len(bld.vectors)]
    /\ UNCHANGED <<clock, srch, run, db, cfg, req, calc>>

\* the call returns to the configuration API; its locals are gone
BuildReturn ==
    /\ bld.pc = "done"
    /\ bld' = [BldInit EXCEPT !.ops = bld.ops]
    /\ UNCHANGED <<vector_stores, clock, srch, run, db, cfg, req, calc>>

\* what a completed build was given and what it left: the workspace, the text, which
\* embedding calls failed, the return value, and the stored chunk count and texts
BuildRecord ==
    LET store == vector_stores[bld.ws]
    IN  [ws |-> bld.ws, text |-> bld.text,
         failures |-> [i \in 1..Len(bld.outcomes) |-> bld.outcomes[i] = <<>>],
         ret |-> bld.ret, num_chunks |-> store.num_chunks,
         texts |-> [i \in 1..Len(store.vectors) |-> store.vectors[i].text]]

\* update_store returns to its caller, which notes what it was given and got
RebuildReturn ==
    /\ bld.pc = "done" /\ bld.op = "update"
    /\ calc' = [calc EXCEPT !.log = Append(@, BuildRecord)]
    /\ bld' = [BldInit EXCEPT !.ops = bld.ops]
    /\ UNCHANGED <<vector_stores, clock, srch, run, db, cfg, req>>

\* a variant that reports data for every index that exists
get_store_info_any(stores, w) ==
    IF w \notin DOMAIN stores THEN [present |-> FALSE, num_chunks |-> 0, created_at |-> 0,
                                    has_data |-> FALSE]
    ELSE [present |-> TRUE, num_chunks |-> stores[w].num_chunks,
          created_at |-> stores[w].created_at, has_data |-> TRUE]

\* RAGService.get_store_info
get_store_info(stores, w) ==
    IF w \notin DOMAIN stores THEN [present |-> FALSE, num_chunks |-> 0, created_at |-> 0,
                                    has_data |-> FALSE]
    ELSE [present |-> TRUE, num_chunks |-> stores[w].num_chunks,
          created_at |-> stores[w].created_at, has_data |-> Len(stores[w].vectors) > 0]

----------------------------------------------------------------------------
(* Configuration API: PUT /agent/config and POST /agent/rag/regenerate *)

\* update_agent_config, lines 76-82: update_store is called when the request
\* carries knowledge text that is not empty and an API key is at hand
NeedsUpdate(row, data) ==
    /\ data.rag_content.some
    /\ Truthy(Or(data.gemini_api_key, row.gemini_api_key, ""), "")
    /\ Truthy(data.rag_content, <<>>)

\* the Workspace object after the assignments of lines 77, 95 and 100
Assigned(row, data) ==
    [row EXCEPT !.rag_content = IF data.rag_content.some THEN data.rag_content ELSE @,
                !.agent_system_prompt = IF data.system_prompt.some THEN data.system_prompt
                                        ELSE @,
                !.gemini_api_key = IF data.gemini_api_key.some THEN data.gemini_api_key
                                   ELSE @]

\* lines 99-104: create_vector_store is called when the request carries an API key
\* that is not empty and the workspace has knowledge text
NeedsCreate(row, data) ==
    /\ data.gemini_api_key.some
    /\ Truthy(data.gemini_api_key, "")
    /\ Truthy(Assigned(row, data).rag_content, <<>>)

\* line 115: db.commit()
Commit(w, row) == db' = [db EXCEPT !.workspace[w] = row]

\* update_agent_config up to its first call into RAGService, or to its end
UpdateAgentConfig(w, data) ==
    /\ cfg.pc = "idle" /\ cfg.calls < MaxPuts /\ bld.pc = "idle"
    /\ LET row == db.workspace[w]
           frame == [CfgInit EXCEPT !.handler = "update_agent_config", !.w = w,
                                    !.data = data, !.row = row, !.calls = cfg.calls + 1]
       IN  IF NeedsUpdate(row, data)
           THEN /\ StartBuild("update", w, data.rag_content.v, DefaultChunkSize,
                              Without(vector_stores, w))
                /\ cfg' = [frame EXCEPT !.pc = "update_store"]
                /\ UNCHANGED db
           ELSE IF NeedsCreate(row, data)
           THEN /\ StartBuild("create", w, Assigned(row, data).rag_content.v,
                              DefaultChunkSize, vector_stores)
                /\ cfg' = [frame EXCEPT !.pc = "create_vector_store"]
                /\ UNCHANGED db
           ELSE /\ Commit(w, Assigned(row, data))
                /\ cfg' = [frame EXCEPT !.pc = "done", !.status = 200]
                /\ UNCHANGED <<vector_stores, clock, bld, calc>>
    /\ UNCHANGED <<srch, run, req, calc>>

\* update_store has returned (line 84); the handler runs on to its second call
\* into RAGService, or to its end
ConfigAfterUpdate ==
    /\ cfg.pc = "update_store" /\ bld.pc = "done"
    /\ IF NeedsCreate(cfg.row, cfg.data)
       THEN /\ StartBuild("create", cfg.w, Assigned(cfg.row, cfg.data).rag_content.v,
                          DefaultChunkSize, vector_stores)
            /\ cfg' = [cfg EXCEPT !.pc = "create_vector_store",
                                  !.builds = Append(@, bld.ret)]
            /\ UNCHANGED db
       ELSE /\ Commit(cfg.w, Assigned(cfg.row, cfg.data))
            /\ cfg' = [cfg EXCEPT !.pc = "done", !.status = 200,
                                  !.builds = Append(@, bld.ret)]
            /\ bld' = [BldInit EXCEPT !.ops = bld.ops]
            /\ UNCHANGED <<vector_stores, clock, calc>>
    /\ UNCHANGED <<srch, run, req, calc>>

\* create_vector_store has returned (line 106); commit and respond
ConfigAfterCreate ==
    /\ cfg.pc = "create_vector_store" /\ bld.pc = "done"
    /\ Commit(cfg.w, Assigned(cfg.row, cfg.data))
    /\ cfg' = [cfg EXCEPT !.pc = "done", !.status = 200, !.builds = Append(@, bld.ret)]
    /\ bld' = [BldInit EXCEPT !.ops = bld.ops]
    /\ UNCHANGED <<vector_stores, clock, srch, run, req, calc>>

\* regenerate_vector_store up to its call of update_store, or to its 400 response
RegenerateVectorStore(w) ==
    /\ cfg.pc = "idle" /\ cfg.calls < MaxPuts /\ bld.pc = "idle"
    /\ LET row == db.workspace[w]
           frame == [CfgInit EXCEPT !.handler = "regenerate_vector_store", !.w = w,
                                    !.row = row, !.calls = cfg.calls + 1]
       IN  IF Truthy(row.rag_content, <<>>) /\ Truthy(row.gemini_api_key, "")
           THEN /\ StartBuild("update", w, row.rag_content.v, DefaultChunkSize,
                              Without(vector_stores, w))
                /\ cfg' = [frame EXCEPT !.pc = "regenerate"]
           ELSE /\ cfg' = [frame EXCEPT !.pc = "done", !.status = 400]
                /\ UNCHANGED <<vector_stores, clock, bld, calc>>
    /\ UNCHANGED <<srch, run, db, req, calc>>

\* update_store has returned (line 143); respond with num_chunks
RegenerateDone ==
    /\ cfg.pc = "regenerate" /\ bld.pc = "done"
    /\ cfg' = [cfg EXCEPT !.pc = "done", !.status = 200, !.builds = Append(@, bld.ret)]
    /\ bld' = [BldInit EXCEPT !.ops = bld.ops]
    /\ UNCHANGED <<vector_stores, clock, srch, run, db, req, calc>>

\* the response has been sent; the handler's locals are gone
ConfigReturn ==
    /\ cfg.pc = "done"
    /\ cfg' = [CfgInit EXCEPT !.calls = cfg.calls]
    /\ UNCHANGED <<vector_stores, clock, bld, srch, run, db, req, calc>>

----------------------------------------------------------------------------
(* RAGService.search *)

\* a call of search(workspace_id, query, api_key, top_k) by caller c
BeginSearch(c, w, top_k) ==
    [SrchInit EXCEPT !.pc = "check", !.ws = w, !.top_k = top_k, !.calls = srch[c].calls + 1]

\* the test-search endpoint and the contract's search(..., top_k)
SearchCall(w, top_k) ==
    /\ srch["api"].pc = "idle" /\ srch["api"].calls < MaxSearches
    /\ srch' = [srch EXCEPT !["api"] = BeginSearch("api", w, top_k)]
    /\ UNCHANGED <<vector_stores, clock, bld, run, db, cfg, req, calc>>

\* a variant without the membership test: indexing the dict raises KeyError
SearchCheck_unguarded(c) ==
    /\ srch[c].pc = "check"
    /\ srch' = [srch EXCEPT ![c] =
                 IF srch[c].ws \notin DOMAIN vector_stores
                 THEN [@ EXCEPT !.pc = "done", !.status = "raised",
                                !.saw = "absent", !.replacing = Replacing(srch[c].ws)]
                 ELSE [@ EXCEPT !.pc = "read", !.saw = "present",
                                !.replacing = Replacing(srch[c].ws)]]
    /\ UNCHANGED <<vector_stores, clock, bld, run, db, cfg, req, calc>>

\* lines 126-128: workspace_id not in self.vector_stores
SearchCheck(c) ==
    /\ srch[c].pc = "check"
    /\ srch' = [srch EXCEPT ![c] =
                 IF srch[c].ws \notin DOMAIN vector_stores
                 THEN [@ EXCEPT !.pc = "done", !.status = "returned", !.result = <<>>,
                                !.saw = "absent", !.replacing = Replacing(srch[c].ws)]
                 ELSE [@ EXCEPT !.pc = "read", !.saw = "present",
                                !.replacing = Replacing(srch[c].ws)]]
    /\ UNCHANGED <<vector_stores, clock, bld, run, db, cfg, req, calc>>

\* line 130: store = self.vector_stores[workspace_id] (KeyError if deleted meanwhile)
SearchRead(c) ==
    /\ srch[c].pc = "read"
    /\ srch' = [srch EXCEPT ![c] =
                 IF srch[c].ws \notin DOMAIN vector_stores
                 THEN [@ EXCEPT !.pc = "done", !.status = "raised", !.saw = "vanished",
                                !.replacing = @ \/ Replacing(srch[c].ws)]
                 ELSE [@ EXCEPT !.pc = "embed", !.store = vector_stores[srch[c].ws],
                                !.replacing = @ \/ Replacing(srch[c].ws),
                                !.full = (Replacing(srch[c].ws)
                                            => vector_stores[srch[c].ws] = bld.old)]]
    /\ UNCHANGED <<vector_stores, clock, bld, run, db, cfg, req, calc>>

\* lines 133-152: embed the query, rank the chunks of the store read at line 130
SearchEmbed(c, query_embedding) ==
    /\ srch[c].pc = "embed"
    /\ srch' = [srch EXCEPT ![c] =
                 IF query_embedding = <<>>
                 THEN [@ EXCEPT !.pc = "done", !.status = "returned", !.result = <<>>,
                                !.embed_calls = @ + 1]
                 ELSE IF SearchRaises(srch[c].store, query_embedding)
                 THEN [@ EXCEPT !.pc = "done", !.status = "raised", !.embed_calls = @ + 1,
                                !.query_embedding = query_embedding]
                 ELSE [@ EXCEPT !.pc = "done", !.status = "returned",
                                !.result = RankTopK(srch[c].store, query_embedding, srch[c].top_k),
                                !.embed_calls = @ + 1,
                                !.query_embedding = query_embedding]]
    /\ UNCHANGED <<vector_stores, clock, bld, run, db, cfg, req, calc>>

\* the direct call returns to its caller; its locals are gone
SearchReturn ==
    /\ srch["api"].pc = "done"
    /\ srch' = [srch EXCEPT !["api"] = [SrchInit EXCEPT !.calls = srch["api"].calls]]
    /\ UNCHANGED <<vector_stores, clock, bld, run, db, cfg, req, calc>>

----------------------------------------------------------------------------
(* Completion Provider: a call fails (raises, or returns no text) or returns text *)

LLMFail == [ok |-> FALSE, text |-> <<>>]
Reply(text) == [ok |-> TRUE, text |-> text]

DecideOutcomes == {LLMFail, Reply(<<"N", "o">>), Reply(<<" ", "y", "e", "s", "\n">>)}
QueryOutcomes == {LLMFail, Reply(<<" ", "h", "o", "u", "r", "s">>)}
AnswerOutcomes == {LLMFail, Reply(<<" ", "O", "k", ".", "\n">>), Reply(<<" ">>)}

\* str.upper() on the letters the replies use
ToUpper(c) ==
    CASE c = "a" -> "A" [] c = "d" -> "D" [] c = "e" -> "E" [] c = "h" -> "H"
      [] c = "k" -> "K" [] c = "n" -> "N" [] c = "o" -> "O" [] c = "r" -> "R"
      [] c = "s" -> "S" [] c = "t" -> "T" [] c = "u" -> "U" [] c = "y" -> "Y"
      [] OTHER -> c
Upper(s) == [i \in 1..Len(s) |-> ToUpper(s[i])]

\* sub in s
Contains(s, sub) ==
    \E i \in 0..(Len(s) - Len(sub)) : SubSeq(s, i + 1, i + Len(sub)) = sub

YES == <<"Y", "E", "S">>

----------------------------------------------------------------------------
(* System prompt templates and str.format.  A template is a sequence of tokens:
   literal text, a replacement field {name}, or a single brace. *)

Lit(t) == [kind |-> "text", s |-> t]
Field(name) == [kind |-> "field", s |-> name]
Brace == [kind |-> "brace", s |-> "{"]

DEFAULT_SYSTEM_PROMPT ==
    <<Lit("You are a sales representative for "), Field("business_name"),
      Lit(". Today's date is "), Field("current_date"),
      Lit(". Business Context: "), Field("rag_context"),
      Lit(" Encourage them to book using this link: "), Field("booking_link")>>

Templates ==
    {DEFAULT_SYSTEM_PROMPT,
     <<Lit("Answer as "), Field("agent_name"), Lit(" of "), Field("business_name")>>,
     <<Lit("Reply in JSON like "), Brace>>}

\* str.format(**kw) raises KeyError on a field that is no keyword argument and
\* ValueError on a single brace
FormatRaises(template, kw) ==
    \E i \in 1..Len(template) :
        \/ template[i].kind = "field" /\ template[i].s \notin DOMAIN kw
        \/ template[i].kind = "brace"

Format(template, kw) ==
    [i \in 1..Len(template) |-> IF template[i].kind = "field" THEN kw[template[i].s]
                                ELSE template[i].s]

BusinessNames == {"Acme"}
CurrentDate == "November 01, 2026"
KnowledgeSummary == "No additional info"
BookingLink(w) == IF w = 1 THEN "http://localhost:5173/book/1"
                  ELSE "http://localhost:5173/book/2"

SystemPromptArgs(w, business_name) ==
    [f \in {"business_name", "current_date", "rag_context", "booking_link"} |->
        CASE f = "business_name" -> business_name
          [] f = "current_date" -> CurrentDate
          [] f = "rag_context" -> KnowledgeSummary
          [] f = "booking_link" -> BookingLink(w)]

MessageCounts == (MAX_MESSAGES - MaxUnder)..(MAX_MESSAGES + MaxOver)

----------------------------------------------------------------------------
(* ConversationAgent *)

\* the strings final_response can hold
Text(t) == [kind |-> "text", business |-> "", max |-> 0, text |-> t]
LimitMessage(max_messages, business_name) ==
    [kind |-> "limit", business |-> business_name, max |-> max_messages, text |-> <<>>]
ApologyMessage(business_name) ==
    [kind |-> "apology", business |-> business_name, max |-> 0, text |-> <<>>]

IsEmptyString(r) == r.kind = "text" /\ r.text = <<>>

RunInit ==
    [pc |-> "idle", runs |-> 0,
     workspace_id |-> 1, business_name |-> "", system_prompt |-> <<>>,
     needs_rag |-> FALSE, rag_query |-> <<>>, rag_results |-> <<>>,
     final_response |-> Text(<<>>), messages_count |-> 0, max_messages |-> 0,
     \* locals of the node being run
     info_present |-> FALSE, search_query |-> <<>>,
     \* what the run has done so far
     visited |-> <<>>, llm_calls |-> <<>>, embed_calls |-> 0,
     decision |-> LLMFail, formulate |-> LLMFail, search_status |-> "none",
     answer |-> LLMFail,
     template |-> "none", context |-> <<>>]

\* process_message, lines 284-309: initial_state, or the exception str.format raises
initial_state(w, business_name, template, messages_count) ==
    IF FormatRaises(template, SystemPromptArgs(w, business_name))
    THEN [RunInit EXCEPT !.pc = "raised", !.runs = run.runs + 1,
                         !.workspace_id = w, !.business_name = business_name,
                         !.messages_count = messages_count]
    ELSE [RunInit EXCEPT !.pc = "check_message_limit", !.runs = run.runs + 1,
                         !.workspace_id = w, !.business_name = business_name,
                         !.system_prompt =
                             Format(template, SystemPromptArgs(w, business_name)),
                         !.messages_count = messages_count,
                         !.max_messages = MAX_MESSAGES]

\* process_message, lines 284-312: build the initial state and enter the graph
ProcessMessage(w, business_name, template, messages_count) ==
    /\ run.pc = "idle" /\ run.runs < MaxRuns
    /\ run' = initial_state(w, business_name, template, messages_count)
    /\ UNCHANGED <<vector_stores, clock, bld, srch, db, cfg, req, calc>>

\* a variant that lets the 14th message through
route_after_limit_check_gt(state) ==
    IF state.messages_count > state.max_messages THEN "limit_reached" ELSE "continue"

route_after_limit_check(state) ==
    IF state.messages_count >= state.max_messages THEN "limit_reached" ELSE "continue"

route_after_rag_decision(state) ==
    IF state.needs_rag THEN "use_rag" ELSE "no_rag"

\* _build_graph: the conditional edges' routing tables and the plain edges
AfterLimitCheck(route) == IF route = "continue" THEN "decide_rag" ELSE "END"
\* a variant that retrieves whatever the decision
AfterRagDecision_always(route) == "retrieve_context"
AfterRagDecision(route) == IF route = "use_rag" THEN "retrieve_context" ELSE "generate_response"
\* variants of the edge out of retrieve_context
AfterRetrieve_cycle == "decide_rag"
AfterRetrieve_end == "END"
AfterRetrieve == "generate_response"
AfterGenerate == "END"

Enter(state, node) == [state EXCEPT !.pc = node,
                                    !.visited = IF node = "END" THEN Append(@, "END") ELSE @]

\* a variant that counts the message being answered
CheckMessageLimit_counts ==
    /\ run.pc = "check_message_limit"
    /\ LET state == [run EXCEPT !.visited = Append(@, "check_message_limit"),
                                !.messages_count = @ + 1,
                                !.final_response =
                                    IF run.messages_count >= run.max_messages
                                    THEN LimitMessage(run.max_messages, run.business_name)
                                    ELSE @]
       IN  run' = Enter(state, AfterLimitCheck(route_after_limit_check(state)))
    /\ UNCHANGED <<vector_stores, clock, bld, srch, db, cfg, req, calc>>

\* node check_message_limit, then its conditional edge
CheckMessageLimit ==
    /\ run.pc = "check_message_limit"
    /\ LET state == [run EXCEPT !.visited = Append(@, "check_message_limit"),
                                !.final_response =
                                    IF run.messages_count >= run.max_messages
                                    THEN LimitMessage(run.max_messages, run.business_name)
                                    ELSE @]
       IN  run' = Enter(state, AfterLimitCheck(route_after_limit_check(state)))
    /\ UNCHANGED <<vector_stores, clock, bld, srch, db, cfg, req, calc>>

\* node decide_rag, lines 104-114, up to get_store_info's membership test (line 167)
DecideRagInfo ==
    /\ run.pc = "decide_rag"
    /\ run' = [run EXCEPT !.pc = "decide_call",
                          !.visited = Append(@, "decide_rag"),
                          !.info_present = run.workspace_id \in DOMAIN vector_stores]
    /\ UNCHANGED <<vector_stores, clock, bld, srch, db, cfg, req, calc>>

\* node decide_rag, from get_store_info's read of the store (line 170) to the end,
\* then its conditional edge
DecideRagCall(outcome) ==
    /\ run.pc = "decide_call"
    /\ LET key_error == run.info_present /\ run.workspace_id \notin DOMAIN vector_stores
           state ==
             IF key_error
             THEN [run EXCEPT !.needs_rag = FALSE]
             ELSE [run EXCEPT !.llm_calls = Append(@, "decide"),
                              !.decision = outcome,
                              !.needs_rag = outcome.ok
                                            /\ Contains(Upper(Strip(outcome.text)), YES)]
       IN  run' = Enter(state, AfterRagDecision(route_after_rag_decision(state)))
    /\ UNCHANGED <<vector_stores, clock, bld, srch, db, cfg, req, calc>>

\* node retrieve_context, lines 138-152: the query-formulate call; on success the
\* call of rag_service.search begins
RetrieveFormulate(outcome) ==
    /\ run.pc = "retrieve_context"
    /\ IF outcome.ok
       THEN /\ run' = [run EXCEPT !.pc = "retrieve_search",
                                  !.visited = Append(@, "retrieve_context"),
                                  !.llm_calls = Append(@, "query"),
                                  !.formulate = outcome,
                                  !.search_query = Strip(outcome.text)]
            /\ srch' = [srch EXCEPT !["agent"] = BeginSearch("agent", run.workspace_id, AgentTopK)]
       ELSE /\ run' = Enter([run EXCEPT !.visited = Append(@, "retrieve_context"),
                                        !.llm_calls = Append(@, "query"),
                                        !.formulate = outcome,
                                        !.rag_results = <<>>],
                            AfterRetrieve)
            /\ UNCHANGED srch
    /\ UNCHANGED <<vector_stores, clock, bld, db, cfg, req, calc>>

\* node retrieve_context, lines 157-173: search has returned or raised; then the
\* edge to generate_response
RetrieveFinish ==
    /\ run.pc = "retrieve_search" /\ srch["agent"].pc = "done"
    /\ LET state ==
             IF srch["agent"].status = "raised"
             THEN [run EXCEPT !.rag_results = <<>>]
             ELSE [run EXCEPT !.rag_results = srch["agent"].result,
                              !.rag_query = run.search_query]
       IN  run' = Enter([state EXCEPT !.embed_calls = @ + srch["agent"].embed_calls,
                                      !.search_status = srch["agent"].status],
                        AfterRetrieve)
    /\ srch' = [srch EXCEPT !["agent"] = [SrchInit EXCEPT !.calls = srch["agent"].calls]]
    /\ UNCHANGED <<vector_stores, clock, bld, db, cfg, req, calc>>

\* a variant that keeps the provider's text as it came and shows the error
GenerateResponse_raw(outcome) ==
    /\ run.pc = "generate_response"
    /\ run' = Enter([run EXCEPT !.visited = Append(@, "generate_response"),
                                !.llm_calls = Append(@, "answer"),
                                !.answer = outcome,
                                !.final_response = Text(outcome.text)],
                    AfterGenerate)
    /\ UNCHANGED <<vector_stores, clock, bld, srch, db, cfg, req, calc>>

\* a variant that chooses the template by the decision instead of the results
GenerateResponse_needs(outcome) ==
    /\ run.pc = "generate_response"
    /\ LET grounded == run.needs_rag
           state ==
             [run EXCEPT !.visited = Append(@, "generate_response"),
                         !.llm_calls = Append(@, "answer"),
                         !.answer = outcome,
                         !.template = IF grounded THEN "DEFAULT_RESPONSE_PROMPT"
                                      ELSE "NO_RAG_RESPONSE_PROMPT",
                         !.context = IF grounded
                                     THEN [i \in 1..Len(run.rag_results) |->
                                             [similarity |-> run.rag_results[i].similarity,
                                              text |-> run.rag_results[i].text]]
                                     ELSE <<>>,
                         !.final_response = IF outcome.ok THEN Text(Strip(outcome.text))
                                            ELSE ApologyMessage(run.business_name)]
       IN  run' = Enter(state, AfterGenerate)
    /\ UNCHANGED <<vector_stores, clock, bld, srch, db, cfg, req, calc>>

\* node generate_response, then the edge to END; process_message then returns
\* final_state['final_response']
GenerateResponse(outcome) ==
    /\ run.pc = "generate_response"
    /\ LET grounded == Len(run.rag_results) > 0
           state ==
             [run EXCEPT !.visited = Append(@, "generate_response"),
                         !.llm_calls = Append(@, "answer"),
                         !.answer = outcome,
                         !.template = IF grounded THEN "DEFAULT_RESPONSE_PROMPT"
                                      ELSE "NO_RAG_RESPONSE_PROMPT",
                         !.context = IF grounded
                                     THEN [i \in 1..Len(run.rag_results) |->
                                             [similarity |-> run.rag_results[i].similarity,
                                              text |-> run.rag_results[i].text]]
                                     ELSE <<>>,
                         !.final_response = IF outcome.ok THEN Text(Strip(outcome.text))
                                            ELSE ApologyMessage(run.business_name)]
       IN  run' = Enter(state, AfterGenerate)
    /\ UNCHANGED <<vector_stores, clock, bld, srch, db, cfg, req, calc>>

\* the invocation is over: the caller has the returned string, or the exception
RunReturn ==
    /\ run.pc \in {"END", "raised"}
    /\ run' = [RunInit EXCEPT !.runs = run.runs]
    /\ UNCHANGED <<vector_stores, clock, bld, srch, db, cfg, req, calc>>

----------------------------------------------------------------------------
(* POST /public/chat/{token}/send: send_chat_message for one conversation, whose
   contact belongs to workspace 1 *)

ConversationWorkspace == 1

\* a Message row
Message(is_from_customer, content) ==
    [is_from_customer |-> is_from_customer, content |-> content]

\* lines 190-193: func.count(Message.id) where is_from_customer
CustomerCount(messages) ==
    Cardinality({i \in 1..Len(messages) : messages[i].is_from_customer})

Hi == <<"h", "i">>
\* data.content: blank, acceptable, too long
Contents == {<<" ">>, Hi, Rep("a", MaxContentLength + 1)}

\* lines 182-207: count the customer's messages, check the limit, validate the content
SendCount(r, content) ==
    /\ req[r].pc = "idle"
    /\ LET customer_message_count == CustomerCount(db.messages)
       IN  req' = [req EXCEPT ![r] =
                    IF customer_message_count >= SendLimit
                    THEN [@ EXCEPT !.pc = "done", !.status = 429]
                    ELSE IF Strip(content) = <<>> \/ Len(content) > MaxContentLength
                    THEN [@ EXCEPT !.pc = "done", !.status = 400]
                    ELSE [@ EXCEPT !.pc = "add",
                                   !.customer_message_count = customer_message_count]]
    /\ UNCHANGED <<vector_stores, clock, bld, srch, run, db, cfg, calc>>

\* lines 210-227: insert the customer's message and commit (every accepted content
\* is Hi)
SendStore(r) ==
    /\ req[r].pc = "add"
    /\ db' = [db EXCEPT !.messages = Append(@, Message(TRUE, Text(Strip(Hi))))]
    /\ req' = [req EXCEPT ![r] = [@ EXCEPT !.pc = "agent", !.stored = TRUE,
                                           !.prior = CustomerCount(db.messages)]]
    /\ UNCHANGED <<vector_stores, clock, bld, srch, run, cfg, calc>>

\* lines 230-274: read the workspace's configuration; without an API key the agent
\* is skipped, otherwise process_message is called
SendAgent(r) ==
    /\ req[r].pc = "agent" /\ run.pc = "idle"
    /\ LET workspace == db.workspace[ConversationWorkspace]
           system_prompt == Or(workspace.agent_system_prompt,
                               Some(DEFAULT_SYSTEM_PROMPT), <<>>).v
           gemini_api_key == Or(workspace.gemini_api_key, db.env_key, "")
       IN  IF ~Truthy(gemini_api_key, "")
           THEN /\ req' = [req EXCEPT ![r] = [@ EXCEPT !.pc = "respond", !.skipped = TRUE]]
                /\ UNCHANGED run
           ELSE /\ req' = [req EXCEPT ![r] = [@ EXCEPT !.pc = "process_message"]]
                /\ run' = initial_state(ConversationWorkspace, workspace.name, system_prompt,
                                        req[r].customer_message_count + 1)
    /\ UNCHANGED <<vector_stores, clock, bld, srch, db, cfg, calc>>

\* lines 277-297: process_message has returned or raised; a reply that is not the
\* empty string is stored, an exception is printed and dropped
SendSave(r) ==
    /\ req[r].pc = "process_message" /\ run.pc \in {"END", "raised"}
    /\ LET agent_response == run.final_response
           save == run.pc = "END" /\ ~IsEmptyString(agent_response)
       IN  /\ db' = IF save
                    THEN [db EXCEPT !.messages = Append(@, Message(FALSE, agent_response))]
                    ELSE db
           /\ req' = [req EXCEPT ![r] =
                       [@ EXCEPT !.pc = "respond", !.ran = TRUE, !.replied = save,
                                 !.outcome = IF run.pc = "raised" THEN "raised"
                                             ELSE IF ~save THEN "empty"
                                             ELSE agent_response.kind]]
    /\ run' = [RunInit EXCEPT !.runs = run.runs]
    /\ UNCHANGED <<vector_stores, clock, bld, srch, cfg, calc>>

\* lines 300-306: the response
SendRespond(r) ==
    /\ req[r].pc = "respond"
    /\ req' = [req EXCEPT ![r] =
                [@ EXCEPT !.pc = "done", !.status = 200,
                          !.messages_remaining =
                              SendLimit - (req[r].customer_message_count + 1)]]
    /\ UNCHANGED <<vector_stores, clock, bld, srch, run, db, cfg, calc>>

----------------------------------------------------------------------------
(* Specifications *)

Init ==
    /\ vector_stores = <<>>
    /\ clock = 0
    /\ bld = BldInit
    /\ srch = [c \in Callers |-> SrchInit]
    /\ run = RunInit
    /\ db = DbInit
    /\ cfg = CfgInit
    /\ req = [r \in Requests |-> ReqInit]
    /\ calc = CalcInit

\* the configuration API's index operations
IndexNext ==
    \/ \E w \in Workspaces, text \in CreateTexts : CreateVectorStore(w, text)
    \/ \E w \in Workspaces, text \in UpdateTexts : UpdateStore(w, text)
    \/ \E w \in Workspaces : DeleteStore(w)
    \/ \E e \in EmbedOutcomes : EmbedChunk(e)
    \/ StoreVectors
    \/ BuildReturn

\* RAGService used by the configuration API and by direct searches
RagNext ==
    \/ IndexNext
    \/ \E w \in Workspaces, k \in 1..MaxTopK : SearchCall(w, k)
    \/ SearchCheck("api")
    \/ SearchRead("api")
    \/ \E e \in EmbedOutcomes : SearchEmbed("api", e)
    \/ SearchReturn

RagSpec == Init /\ [][RagNext]_vars

\* request bodies of PUT /agent/config (AgentConfigUpdate)
ConfigTexts == {None(<<>>), Some(<<>>), Some(T_one)}
ConfigKeys == {None(""), Some("key")}
ConfigPrompts == {None(<<>>), Some(<<Lit("Reply in JSON like "), Brace>>)}
ConfigData ==
    [rag_content : ConfigTexts, system_prompt : ConfigPrompts, gemini_api_key : ConfigKeys]

\* the configuration API over the database and the index
ConfigNext ==
    \/ \E w \in Workspaces, data \in ConfigData : UpdateAgentConfig(w, data)
    \/ ConfigAfterUpdate
    \/ ConfigAfterCreate
    \/ \E w \in Workspaces : RegenerateVectorStore(w)
    \/ RegenerateDone
    \/ ConfigReturn
    \/ \E e \in EmbedOutcomes : EmbedChunk(e)
    \/ StoreVectors

ConfigSpec == Init /\ [][ConfigNext]_vars

\* the agent answering one message while the configuration API rebuilds the index
\* (PUT /agent/config, POST /agent/rag/regenerate)
GraphStep ==
    \/ CheckMessageLimit
    \/ DecideRagInfo
    \/ \E o \in DecideOutcomes : DecideRagCall(o)
    \/ \E o \in QueryOutcomes : RetrieveFormulate(o)
    \/ SearchCheck("agent")
    \/ SearchRead("agent")
    \/ \E e \in EmbedOutcomes : SearchEmbed("agent", e)
    \/ RetrieveFinish
    \/ \E o \in AnswerOutcomes : GenerateResponse(o)

AgentStep ==
    \/ GraphStep
    \/ RunReturn

Next ==
    \/ \E w \in Workspaces, text \in AgentTexts : UpdateStore(w, text)
    \/ \E e \in BuildEmbeddings : EmbedChunk(e)
    \/ StoreVectors
    \/ BuildReturn
    \/ \E w \in Workspaces, b \in BusinessNames, t \in Templates, n \in MessageCounts :
          ProcessMessage(w, b, t, n)
    \/ AgentStep

Spec == Init /\ [][Next]_vars

\* graph.invoke runs the nodes to the end without waiting for anything but the
\* provider calls, which return or fail in finite time
FairSpec == Spec /\ WF_vars(AgentStep)

\* the conversation so far: n customer messages, each answered
History(n) ==
    [i \in 1..(2 * n) |-> IF i % 2 = 1 THEN Message(TRUE, Text(Hi))
                          ELSE Message(FALSE, Text(<<"O", "k", ".">>))]

\* configurations PUT /agent/config leaves behind for workspace 1: none; an API key
\* and knowledge text with its store; an API key and a system prompt of the
\* owner's own
ChatConfigs ==
    {[row |-> NewWorkspace, stores |-> <<>>],
     [row |-> WorkspaceRow("Acme", Some(T_one), None(<<>>), Some("key")),
      stores |-> Put(<<>>, 1, NewStore(<<Vector(0, chunk_text(T_one, DefaultChunkSize)[1],
                                                <<1, 0>>, 1)>>, 1))],
     [row |-> WorkspaceRow("Acme", None(<<>>), Some(<<Lit("Reply in JSON like "), Brace>>),
                           Some("key")),
      stores |-> <<>>]}

ChatInit ==
    /\ \E c \in ChatConfigs, n \in (SendLimit - MaxPrior)..SendLimit :
          /\ vector_stores = c.stores
          /\ db = [DbInit EXCEPT !.workspace[ConversationWorkspace] = c.row,
                                 !.messages = History(n)]
    /\ clock = 1
    /\ bld = BldInit
    /\ srch = [c \in Callers |-> SrchInit]
    /\ run = RunInit
    /\ cfg = CfgInit
    /\ req = [r \in Requests |-> ReqInit]
    /\ calc = CalcInit

\* send requests to one conversation, each running the agent
ChatNext ==
    \/ \E r \in Requests, content \in Contents : SendCount(r, content)
    \/ \E r \in Requests : SendStore(r)
    \/ \E r \in Requests : SendAgent(r)
    \/ \E r \in Requests : SendSave(r)
    \/ \E r \in Requests : SendRespond(r)
    \/ GraphStep

ChatSpec == ChatInit /\ [][ChatNext]_vars

\* the chunker and a build on every text and chunk_size
ChunkInit ==
    /\ \E text \in ChunkerTexts, chunk_size \in ChunkSizes :
          calc = [CalcInit EXCEPT !.pc = "chunk", !.text = text, !.chunk_size = chunk_size]
    /\ vector_stores = <<>>
    /\ clock = 0
    /\ bld = BldInit
    /\ srch = [c \in Callers |-> SrchInit]
    /\ run = RunInit
    /\ db = DbInit
    /\ cfg = CfgInit
    /\ req = [r \in Requests |-> ReqInit]

ChunkNext ==
    \/ CreateVectorStoreSized
    \/ \E e \in {Failed, <<1, 0>>} : EmbedChunk(e)
    \/ StoreVectors

ChunkSpec == ChunkInit /\ [][ChunkNext]_vars

\* searches of a fixed index
SearchInit ==
    /\ \E n \in 0..MaxChunks : \E emb \in [1..n -> SearchVectors] :
          vector_stores = Put(<<>>, 1, NewStore([i \in 1..n |->
                                   Vector(i - 1, ChunkText(i - 1), emb[i], 1)], 1))
    /\ clock = 1
    /\ bld = BldInit
    /\ srch = [c \in Callers |-> SrchInit]
    /\ run = RunInit
    /\ db = DbInit
    /\ cfg = CfgInit
    /\ req = [r \in Requests |-> ReqInit]
    /\ calc = CalcInit

SearchNext ==
    \/ \E w \in Workspaces, k \in 1..MaxTopK : SearchCall(w, k)
    \/ SearchCheck("api")
    \/ SearchRead("api")
    \/ \E e \in SearchVectors \cup {Failed} : SearchEmbed("api", e)
    \/ SearchReturn

SearchSpec == SearchInit /\ [][SearchNext]_vars

\* rebuilds in succession, from no index or from an index of one chunk
RebuildInit ==
    /\ vector_stores \in {<<>>, Put(<<>>, 1, NewStore(<<Vector(0, ChunkText(0), <<1, 0>>, 0)>>, 0))}
    /\ clock = 0
    /\ bld = BldInit
    /\ srch = [c \in Callers |-> SrchInit]
    /\ run = RunInit
    /\ db = DbInit
    /\ cfg = CfgInit
    /\ req = [r \in Requests |-> ReqInit]
    /\ calc = CalcInit

RebuildNext ==
    \/ \E w \in Workspaces, text \in UpdateTexts : UpdateStore(w, text)
    \/ \E e \in BuildEmbeddings : EmbedChunk(e)
    \/ StoreVectors
    \/ RebuildReturn

RebuildSpec == RebuildInit /\ [][RebuildNext]_vars

\* the agent answering messages over an index that stays as it is: workspace 1 has
\* an index of up to MaxStored chunks, workspace 2 has none
StoredVectors == {<<1, 0>>, <<0, 1>>}

AnswerInit ==
    /\ \E n \in 0..MaxStored : \E emb \in [1..n -> StoredVectors] :
          vector_stores = Put(<<>>, 1, NewStore([i \in 1..n |->
                                   Vector(i - 1, ChunkText(i - 1), emb[i], 1)], 1))
    /\ clock = 1
    /\ bld = BldInit
    /\ srch = [c \in Callers |-> SrchInit]
    /\ run = RunInit
    /\ db = DbInit
    /\ cfg = CfgInit
    /\ req = [r \in Requests |-> ReqInit]
    /\ calc = CalcInit

AnswerNext ==
    \/ \E w \in Workspaces, b \in BusinessNames, t \in Templates, n \in MessageCounts :
          ProcessMessage(w, b, t, n)
    \/ AgentStep

AnswerSpec == AnswerInit /\ [][AnswerNext]_vars

\* every operation of the service and the agent on two workspaces, one call at a
\* time, as the event loop runs the handlers
Quiet == bld.pc = "idle" /\ srch["api"].pc = "idle" /\ run.pc = "idle"

PartitionNext ==
    \/ Quiet /\ \E w \in Workspaces, text \in CreateTexts : CreateVectorStore(w, text)
    \/ Quiet /\ \E w \in Workspaces, text \in UpdateTexts : UpdateStore(w, text)
    \/ Quiet /\ \E w \in Workspaces : DeleteStore(w)
    \/ \E e \in BuildEmbeddings : EmbedChunk(e)
    \/ StoreVectors
    \/ BuildReturn
    \/ Quiet /\ \E w \in Workspaces, k \in 1..MaxTopK : SearchCall(w, k)
    \/ SearchCheck("api")
    \/ SearchRead("api")
    \/ \E e \in EmbedOutcomes : SearchEmbed("api", e)
    \/ SearchReturn
    \/ Quiet /\ \E w \in Workspaces, b \in BusinessNames, t \in Templates, n \in MessageCounts :
                  ProcessMessage(w, b, t, n)
    \/ AgentStep

PartitionSpec == Init /\ [][PartitionNext]_vars

----------------------------------------------------------------------------
(* Properties *)

Count(seq, x) == Cardinality({i \in 1..Len(seq) : seq[i] = x})
IsPrefix(a, b) == Len(a) <= Len(b) /\ SubSeq(b, 1, Len(a)) = a
InGraph == run.pc \notin {"idle", "raised"}
Left(node) == \E i \in 1..Len(run.visited) : run.visited[i] = node

\* C1: a run with messages_count >= 14 ends at once with the limit-reached message
\* naming the business, having made no completion call and no embedding call and
\* entered no other node; a run with messages_count <= 13 goes from
\* check_message_limit to decide_rag and never holds the limit-reached message.
C1_MessageLimit ==
    InGraph =>
      /\ (run.messages_count >= 14 /\ run.pc # "check_message_limit") =>
            /\ run.pc = "END"
            /\ run.visited = <<"check_message_limit", "END">>
            /\ run.final_response = LimitMessage(14, run.business_name)
            /\ run.llm_calls = <<>>
            /\ run.embed_calls = 0 /\ srch["agent"].pc = "idle"
      /\ run.messages_count <= 13 =>
            /\ run.final_response.kind # "limit"
            /\ run.pc # "check_message_limit" =>
                  /\ IsPrefix(<<"check_message_limit">>, run.visited)
                  /\ run.pc = "decide_rag" \/ IsPrefix(<<"check_message_limit", "decide_rag">>,
                                                        run.visited)

C1_Witness ==
    /\ run.pc = "END" /\ run.messages_count >= 14
    /\ run.final_response = LimitMessage(14, run.business_name)

\* C2: process_message never raises to its caller.
C2_NeverRaises == run.pc # "raised"

\* C3: a search that runs while an existing index of its workspace is being
\* replaced finds the workspace's index, the old one or the new one in full.
C3_AtomicReplace ==
    \A c \in Callers :
        srch[c].replacing => srch[c].saw \notin {"absent", "vanished"} /\ srch[c].full

\* C4: the nodes a run has visited, followed by the node it is at, are a prefix
\* of one of the three paths from check_message_limit to END.
Paths ==
    {<<"check_message_limit", "END">>,
     <<"check_message_limit", "decide_rag", "generate_response", "END">>,
     <<"check_message_limit", "decide_rag", "retrieve_context", "generate_response", "END">>}

NodeAt ==
    CASE run.pc = "decide_call" -> <<>>
      [] run.pc = "retrieve_search" -> <<>>
      [] run.pc = "END" -> <<>>
      [] OTHER -> <<run.pc>>

C4_Paths ==
    InGraph =>
      /\ \E p \in Paths : IsPrefix(run.visited \o NodeAt, p)
      /\ run.pc = "END" => run.visited \in Paths
      /\ run.pc = "decide_call" => run.visited[Len(run.visited)] = "decide_rag"
      /\ run.pc = "retrieve_search" => run.visited[Len(run.visited)] = "retrieve_context"

C4_Witness ==
    run.visited = <<"check_message_limit", "decide_rag", "retrieve_context",
                    "generate_response", "END">>

\* C5: every invocation of process_message eventually reaches END.
C5_EventuallyTerminal == (run.pc # "idle") ~> (run.pc = "END")

\* C6: a search of a fixed index with an embedded query returns min(top_k,
\* chunk_count) results, each a chunk of the index with its cosine similarity,
\* in non-increasing similarity, no chunk left out being more similar than one
\* returned, and chunks of equal similarity in chunk order (a chunk left out is
\* never earlier in the index than an equally similar chunk returned).
C6_TopK ==
    LET f == srch["api"]
        n == Len(f.store.vectors)
        sim(i) == cosine_similarity(f.query_embedding, f.store.vectors[i].embedding)
        idx(j) == f.result[j].metadata.chunk_index + 1
        picked == {idx(j) : j \in 1..Len(f.result)}
    IN  (f.pc = "done" /\ f.query_embedding # <<>>) =>
          /\ f.status = "returned"
          /\ Len(f.result) = (IF f.top_k < n THEN f.top_k ELSE n)
          /\ Len(f.result) <= f.top_k
          /\ \A j \in 1..Len(f.result) :
                /\ idx(j) \in 1..n
                /\ f.result[j].text = f.store.vectors[idx(j)].text
                /\ f.result[j].similarity = sim(idx(j))
          /\ \A j, k \in 1..Len(f.result) :
                j < k => /\ ~SimGT(f.result[k].similarity, f.result[j].similarity)
                         /\ idx(j) # idx(k)
                         /\ SimEQ(f.result[k].similarity, f.result[j].similarity)
                               => idx(j) < idx(k)
          /\ \A i \in (1..n) \ picked : \A j \in 1..Len(f.result) :
                /\ ~SimGT(sim(i), f.result[j].similarity)
                /\ SimEQ(sim(i), f.result[j].similarity) => idx(j) < i

\* similarities 0.89, 0.45, 0.95 with top_k = 2: the third chunk, then the first
C6_Witness ==
    LET f == srch["api"]
    IN  /\ f.pc = "done" /\ f.top_k = 2 /\ f.query_embedding = <<2, 1>>
        /\ Len(f.store.vectors) = 3
        /\ f.store.vectors[1].embedding = <<1, 0>>
        /\ f.store.vectors[2].embedding = <<0, 1>>
        /\ f.store.vectors[3].embedding = <<1, 1>>
        /\ Len(f.result) = 2
        /\ f.result[1].metadata.chunk_index = 2
        /\ f.result[2].metadata.chunk_index = 0

\* C7: search returns the empty sequence without raising when the workspace has
\* no index (then without an embedding call), when the index holds no chunk, and
\* when the query embedding fails; no step of search changes an index.
SearchStep ==
    \E c \in Callers :
        \/ SearchCheck(c) \/ SearchRead(c)
        \/ \E e \in EmbedOutcomes \cup SearchVectors : SearchEmbed(c, e)

SearchFailsSoft(f) ==
    f.pc = "done" =>
      /\ f.saw = "absent" =>
            f.status = "returned" /\ f.result = <<>> /\ f.embed_calls = 0
      /\ (f.saw = "present" /\ f.store.vectors = <<>>) =>
            f.status = "returned" /\ f.result = <<>>
      /\ (f.saw = "present" /\ f.embed_calls = 1 /\ f.query_embedding = <<>>) =>
            f.status = "returned" /\ f.result = <<>>

C7_SearchFailSoft ==
    /\ [](\A c \in Callers : SearchFailsSoft(srch[c]))
    /\ [][SearchStep => vector_stores' = vector_stores]_vars

C7_Witness ==
    LET f == srch["api"]
    IN  /\ f.pc = "done" /\ f.saw = "present" /\ f.store.vectors # <<>>
        /\ f.embed_calls = 1 /\ f.query_embedding = <<>> /\ f.result = <<>>

\* C8: when a build returns, it has made exactly one embedding call per chunk,
\* the stored index holds exactly the chunks whose call succeeded, in chunk order,
\* and the value returned is their number, which is the stored num_chunks.
Embedded == {i \in 1..Len(bld.chunks) : i <= Len(bld.outcomes) /\ bld.outcomes[i] # <<>>}

C8_BuildDropsFailures ==
    (bld.pc = "done" /\ bld.op \in {"create", "update"}) =>
      /\ Len(bld.outcomes) = Len(bld.chunks)
      /\ bld.ws \in DOMAIN vector_stores
      /\ LET store == vector_stores[bld.ws]
         IN  /\ Len(store.vectors) = Cardinality(Embedded)
             /\ bld.ret = Cardinality(Embedded)
             /\ store.num_chunks = bld.ret
             /\ \A k \in 1..Len(store.vectors) :
                   /\ store.vectors[k].id + 1 \in Embedded
                   /\ store.vectors[k].text = bld.chunks[store.vectors[k].id + 1]
                   /\ store.vectors[k].embedding = bld.outcomes[store.vectors[k].id + 1]
                   /\ Cardinality({i \in Embedded : i <= store.vectors[k].id + 1}) = k

C8_Witness ==
    /\ bld.pc = "done" /\ Len(bld.chunks) = 2
    /\ bld.outcomes[1] = <<>> /\ bld.outcomes[2] # <<>>
    /\ bld.ret = 1

\* C9: when the completion call of decide_rag fails, needs_rag is false, the run
\* makes no query-formulate call and no embedding call and does not enter
\* retrieve_context, it reaches generate_response, and if the answer-generate
\* call returns non-empty text the returned string is not empty.
DecideFailed == InGraph /\ Count(run.llm_calls, "decide") = 1 /\ ~run.decision.ok

C9_DecideFailSoft ==
    DecideFailed =>
      /\ ~run.needs_rag
      /\ ~Left("retrieve_context") /\ run.pc \in {"generate_response", "END"}
      /\ Count(run.llm_calls, "query") = 0
      /\ run.embed_calls = 0 /\ srch["agent"].pc = "idle"
      /\ run.pc = "END" =>
            /\ Left("generate_response")
            /\ (run.answer.ok /\ run.answer.text # <<>>) => ~IsEmptyString(run.final_response)

\* C10: a failed query-formulate call or a raising search leaves rag_results
\* empty; retrieve_context makes at most one query-formulate call and one search,
\* and is always followed by generate_response.
C10_RetrieveFailSoft ==
    (InGraph /\ Left("retrieve_context")) =>
      /\ Count(run.llm_calls, "query") = 1
      /\ run.embed_calls <= 1 /\ srch["agent"].embed_calls <= 1
      /\ run.pc \in {"retrieve_search", "generate_response", "END"}
      /\ run.pc = "retrieve_search" => run.formulate.ok
      /\ run.pc # "retrieve_search" =>
            /\ (~run.formulate.ok \/ run.search_status = "raised") => run.rag_results = <<>>
            /\ ~run.formulate.ok => run.search_status = "none" /\ run.embed_calls = 0
            /\ run.pc = "END" => Left("generate_response")
      /\ \A i \in 1..(Len(run.visited) - 1) :
            run.visited[i] = "retrieve_context" => run.visited[i + 1] = "generate_response"

C10_Witness ==
    /\ run.pc = "generate_response" /\ Left("retrieve_context")
    /\ run.search_status = "raised" /\ run.rag_results = <<>>

\* C11: generate_response makes exactly one completion call; when the call fails
\* final_response is the fixed apology naming the business, when it succeeds
\* final_response is the provider's text with surrounding whitespace removed; in
\* both cases the run goes on to END.
C11_Generate ==
    InGraph =>
      /\ Count(run.llm_calls, "answer") = (IF Left("generate_response") THEN 1 ELSE 0)
      /\ Left("generate_response") =>
           /\ run.pc = "END"
           /\ ~run.answer.ok => run.final_response = ApologyMessage(run.business_name)
           /\ run.answer.ok =>
                /\ run.final_response.kind = "text"
                /\ LET t == run.final_response.text
                       raw == run.answer.text
                   IN  /\ t # <<>> => ~IsSpace(t[1]) /\ ~IsSpace(t[Len(t)])
                       /\ \E i \in 0..Len(raw) :
                            /\ SubSeq(raw, i + 1, i + Len(t)) = t
                            /\ \A j \in 1..Len(raw) :
                                 (j <= i \/ j > i + Len(t)) => IsSpace(raw[j])

C11_Witness ==
    /\ run.pc = "END" /\ Left("generate_response")
    /\ ~run.answer.ok /\ run.final_response = ApologyMessage("Acme")

\* C12: every send request that was accepted (its message stored, response 200)
\* has had a reply of the agent stored in the conversation by the time it
\* completes; when the provider failed that reply is the apology.
C12_AlwaysReplied ==
    \A r \in Requests :
        (req[r].pc = "done" /\ req[r].status = 200) =>
          /\ req[r].stored
          /\ req[r].replied
          /\ req[r].outcome \in {"text", "apology", "limit"}

\* C13: a run makes at most three completion calls, decide, query-formulate and
\* answer-generate at most once each and in that order, query-formulate only when
\* needs_rag is true; it makes at most one embedding call, inside retrieve_context
\* after a successful query-formulate call.
CallRank(call) == CASE call = "decide" -> 1 [] call = "query" -> 2 [] call = "answer" -> 3

EmbeddingCalls == run.embed_calls + srch["agent"].embed_calls

C13_ProviderCalls ==
    InGraph =>
      /\ Len(run.llm_calls) <= 3
      /\ \A i, j \in 1..Len(run.llm_calls) :
           i < j => CallRank(run.llm_calls[i]) < CallRank(run.llm_calls[j])
      /\ Count(run.llm_calls, "query") = 1 => run.needs_rag
      /\ EmbeddingCalls <= 1
      /\ EmbeddingCalls = 1 =>
           /\ Count(run.llm_calls, "query") = 1 /\ run.formulate.ok
           /\ run.pc = "retrieve_search" \/ Left("retrieve_context")

C13_Witness ==
    /\ run.pc = "END" /\ run.llm_calls = <<"decide", "query", "answer">>
    /\ EmbeddingCalls = 1

\* C14: the messages_count the send endpoint passes to process_message is the
\* number of customer messages stored before the message being answered, so the
\* reply is the limit-reached message exactly when 14 customer messages came before.
C14_CountIsPrior ==
    \A r \in Requests :
        /\ (req[r].pc = "process_message" /\ InGraph) =>
              run.messages_count = req[r].prior
        /\ (req[r].pc = "done" /\ req[r].ran /\ req[r].outcome # "raised") =>
              (req[r].outcome = "limit" <=> req[r].prior = 14)

\* C15: no node changes messages_count or max_messages: from the initial state of
\* a run to its end messages_count keeps the value process_message was given and
\* max_messages is 14.
C15_CountsUnchanged ==
    /\ [](InGraph => run.max_messages = 14)
    /\ [][(InGraph /\ InGraph') =>
            /\ run'.messages_count = run.messages_count
            /\ run'.max_messages = run.max_messages]_vars

C15_Witness ==
    /\ run.pc = "END" /\ Len(run.visited) = 5
    /\ run.messages_count = 13 /\ run.max_messages = 14

\* C16: the conversation never holds more than 14 customer messages; a request
\* answered 429 has stored no message and run no agent; messages_remaining of a
\* successful request is not negative.
C16_SendLimit ==
    /\ CustomerCount(db.messages) <= 14
    /\ \A r \in Requests :
         /\ req[r].status = 429 =>
              ~req[r].stored /\ ~req[r].ran /\ ~req[r].skipped /\ ~req[r].replied
         /\ req[r].status = 200 => req[r].messages_remaining >= 0

\* C17: when create_vector_store or update_store has completed for a workspace,
\* the workspace's store holds exactly the vectors of that build, every one of them
\* a chunk of the text just given, and num_chunks and created_at are that build's.
C17_Replaced ==
    (bld.pc = "done" /\ bld.op \in {"create", "update"}) =>
      /\ bld.ws \in DOMAIN vector_stores
      /\ LET store == vector_stores[bld.ws]
         IN  /\ store.vectors = bld.vectors
             /\ \A i \in 1..Len(store.vectors) :
                  /\ \E c \in 1..Len(bld.chunks) : store.vectors[i].text = bld.chunks[c]
                  /\ store.vectors[i].metadata.created_at = clock
             /\ store.num_chunks = Len(bld.vectors)
             /\ store.created_at = clock
             /\ bld.had_old => store.created_at > bld.old.created_at

C17_Witness ==
    /\ bld.pc = "done" /\ bld.op = "create" /\ bld.had_old
    /\ bld.old.num_chunks = 1 /\ Len(bld.vectors) = 1
    /\ bld.old.vectors[1].embedding # bld.vectors[1].embedding
    /\ vector_stores[bld.ws].num_chunks = 1

\* C18: after a PUT /agent/config that sets the knowledge text to the empty string
\* the workspace has no store: get_store_info returns None.
C18_ClearedDeletes ==
    (cfg.pc = "done" /\ cfg.handler = "update_agent_config"
        /\ cfg.data.rag_content = Some(<<>>)) =>
      ~get_store_info(vector_stores, cfg.w).present

\* C19: a workspace that has a store had at least one chunk embedded in the build
\* that stored it.
C19_IndexHasChunk ==
    \A w \in DOMAIN vector_stores :
        /\ vector_stores[w].num_chunks >= 1
        /\ Len(vector_stores[w].vectors) >= 1

\* C20: the embeddings of the vectors of one store all have the same length.
C20_SameDimension ==
    \A w \in DOMAIN vector_stores :
        \A i, j \in 1..Len(vector_stores[w].vectors) :
            Len(vector_stores[w].vectors[i].embedding)
              = Len(vector_stores[w].vectors[j].embedding)

\* the sentences the chunker works on: the pieces between '. ' separators,
\* stripped, the blank ones left out
Sentences(text) ==
    LET parts == SplitFrom(Replace(text, "\n", " "), 1)
        kept == SelectSeq([i \in 1..Len(parts) |-> Strip(parts[i])], LAMBDA p : p # <<>>)
    IN  IF text = <<>> THEN <<>> ELSE kept

\* a text without its whitespace
RECURSIVE Squeeze(_)
Squeeze(s) ==
    IF s = <<>> THEN <<>>
    ELSE IF IsSpace(Head(s)) THEN Squeeze(Tail(s)) ELSE <<Head(s)>> \o Squeeze(Tail(s))

RECURSIVE Flatten(_)
Flatten(chunks) == IF chunks = <<>> THEN <<>> ELSE Head(chunks) \o <<" ">> \o Flatten(Tail(chunks))

Chunked == calc.pc = "chunk" /\ bld.pc # "idle"

\* C22: no chunk is longer than chunk_size, unless it is a single sentence that is
\* itself (with its full stop) longer than chunk_size.
C22_ChunkSize ==
    Chunked =>
      \A i \in 1..Len(bld.chunks) :
          \/ Len(bld.chunks[i]) <= calc.chunk_size
          \/ \E j \in 1..Len(Sentences(calc.text)) :
                bld.chunks[i] = Sentences(calc.text)[j] \o <<".">>

\* C23: the chunks, put together in order, are the source text up to whitespace:
\* nothing is added and nothing is dropped.
C23_ChunksReproduce ==
    Chunked => Squeeze(Flatten(bld.chunks)) = Squeeze(calc.text)

\* C24 as stated: every text that is not empty and no longer than chunk_size
\* yields exactly one chunk.
C24_FitsOneChunk ==
    (Chunked /\ calc.text # <<>> /\ Len(calc.text) <= calc.chunk_size) =>
      Len(bld.chunks) = 1

\* C24: a text no longer than chunk_size yields exactly one chunk when it has a
\* sentence that is not blank and none otherwise, and the build then returns 1
\* when the embedding call succeeds; the empty text yields no chunk and the build
\* returns 0; whenever there is a sentence, the last chunk ends with the last one.
C24_FitsOneChunkOrNone ==
    Chunked =>
      LET sentences == Sentences(calc.text)
          chunks == bld.chunks
      IN  /\ calc.text = <<>> => chunks = <<>>
          /\ Len(calc.text) <= calc.chunk_size =>
               Len(chunks) = (IF sentences = <<>> THEN 0 ELSE 1)
          /\ sentences # <<>> =>
               /\ chunks # <<>>
               /\ LET last == sentences[Len(sentences)] \o <<".">>
                      c == chunks[Len(chunks)]
                  IN  Len(c) >= Len(last)
                        /\ SubSeq(c, Len(c) - Len(last) + 1, Len(c)) = last
          /\ bld.pc = "done" =>
               /\ chunks = <<>> => bld.ret = 0
               /\ (Len(chunks) = 1 /\ bld.outcomes[1] # Failed) => bld.ret = 1

C24_Witness ==
    /\ Chunked /\ bld.pc = "done"
    /\ calc.text = ScenarioA /\ calc.chunk_size = 500
    /\ Len(bld.chunks) = 1 /\ bld.ret = 1

\* C25: in a search, the similarity of a chunk is exactly 0 when the query vector
\* or the chunk's vector is the zero vector, and the search does not fail; it is 1
\* when the two vectors are the same and not zero, and 0 when they are orthogonal.
IsZeroVector(vec) == \A i \in 1..Len(vec) : vec[i] = 0

C25_Cosine ==
    LET f == srch["api"]
    IN  (f.pc = "done" /\ f.query_embedding # <<>>) =>
          /\ f.status = "returned"
          /\ \A i \in 1..Len(f.result) :
               LET chunk == f.store.vectors[f.result[i].metadata.chunk_index + 1].embedding
                   query == f.query_embedding
                   similarity == f.result[i].similarity
               IN  /\ (IsZeroVector(query) \/ IsZeroVector(chunk)) => similarity = Zero
                   /\ (query = chunk /\ ~IsZeroVector(query)) =>
                         similarity.num = similarity.den /\ similarity.den > 0
                   /\ (Dot(query, chunk) = 0 /\ ~IsZeroVector(query) /\ ~IsZeroVector(chunk)) =>
                         similarity.num = 0 /\ similarity.den > 0

C25_Witness ==
    LET f == srch["api"]
    IN  /\ f.pc = "done" /\ f.status = "returned"
        /\ f.query_embedding = <<0, 0>> /\ Len(f.result) = 2
        /\ f.result[1].similarity = Zero /\ f.result[2].similarity = Zero
        /\ \E i \in 1..Len(f.store.vectors) : f.store.vectors[i].embedding = <<0, 0>>

\* C21: two rebuilds in succession for the same workspace with the same text and
\* the same pattern of failed embedding calls have the same return value and leave
\* the same chunk count and the same chunk texts.
C21_Idempotent ==
    \A i \in 1..(Len(calc.log) - 1) :
        LET first == calc.log[i]
            second == calc.log[i + 1]
        IN  (first.ws = second.ws /\ first.text = second.text
               /\ first.failures = second.failures) =>
               /\ second.ret = first.ret
               /\ second.num_chunks = first.num_chunks
               /\ second.texts = first.texts

C21_Witness ==
    /\ Len(calc.log) = 2
    /\ calc.log[1].ws = calc.log[2].ws /\ calc.log[1].text = T_long /\ calc.log[2].text = T_long
    /\ calc.log[1].failures = <<TRUE, FALSE>> /\ calc.log[2].failures = <<TRUE, FALSE>>
    /\ calc.log[2].ret = 1 /\ calc.log[2].texts = <<<<"b", ".", ".">>>>

\* C28: get_store_info returns None exactly for a workspace that has no index;
\* otherwise, after any sequence of builds, rebuilds and deletes, its num_chunks is
\* the number of chunks stored and has_data is true exactly when that is above 0.
C28_StoreInfo ==
    \A w \in Workspaces :
        LET info == get_store_info(vector_stores, w)
        IN  /\ ~info.present <=> w \notin DOMAIN vector_stores
            /\ info.present =>
                  /\ info.num_chunks = Len(vector_stores[w].vectors)
                  /\ info.has_data <=> info.num_chunks > 0

C28_Witness ==
    /\ bld.ops = 2 /\ bld.pc = "done" /\ bld.op = "update"
    /\ DOMAIN vector_stores = {1, 2}
    /\ get_store_info(vector_stores, 1) =
          [present |-> TRUE, num_chunks |-> 0, created_at |-> vector_stores[1].created_at,
           has_data |-> FALSE]
    /\ get_store_info(vector_stores, 2).num_chunks = 2
    /\ get_store_info(vector_stores, 2).has_data

\* C26: decide_rag makes exactly one completion call and sets needs_rag to true
\* exactly when that call succeeds and its reply contains "YES" in any case; the
\* run enters retrieve_context exactly when needs_rag is true after decide_rag, and
\* otherwise goes from decide_rag straight to generate_response.
Decided == InGraph /\ Left("decide_rag") /\ run.pc # "decide_call"

C26_Decide ==
    Decided =>
      /\ Count(run.llm_calls, "decide") = 1
      /\ run.needs_rag <=> (run.decision.ok /\ Contains(Upper(run.decision.text), YES))
      /\ run.needs_rag <=>
           (run.pc \in {"retrieve_context", "retrieve_search"} \/ Left("retrieve_context"))
      /\ ~run.needs_rag => run.pc \in {"generate_response", "END"}

\* C27: generate_response uses the grounded template exactly when rag_results is
\* not empty on entry, listing the results in the order search returned them, and
\* the no-context template otherwise; a run with needs_rag false enters it with
\* rag_results empty, and so does a run whose retrieval ended with no results.
Descending(results) ==
    \A i, j \in 1..Len(results) :
        i < j => ~SimGT(results[j].similarity, results[i].similarity)

C27_Template ==
    /\ run.pc = "generate_response" =>
          /\ ~run.needs_rag => run.rag_results = <<>>
          /\ Descending(run.rag_results)
    /\ (InGraph /\ Left("generate_response")) =>
          /\ run.template = "DEFAULT_RESPONSE_PROMPT" <=> run.rag_results # <<>>
          /\ run.template = "NO_RAG_RESPONSE_PROMPT" <=> run.rag_results = <<>>
          /\ ~run.needs_rag => run.template = "NO_RAG_RESPONSE_PROMPT"
          /\ run.template = "DEFAULT_RESPONSE_PROMPT" =>
                /\ Len(run.context) = Len(run.rag_results)
                /\ \A i \in 1..Len(run.context) :
                      /\ run.context[i].text = run.rag_results[i].text
                      /\ run.context[i].similarity = run.rag_results[i].similarity
                /\ Descending(run.context)

C27_Witness ==
    /\ run.pc = "END" /\ Left("generate_response")
    /\ run.template = "DEFAULT_RESPONSE_PROMPT" /\ Len(run.context) = 2
    /\ run.context[1].text = ChunkText(1) /\ run.context[2].text = ChunkText(0)
    /\ SimGT(run.context[1].similarity, run.context[2].similarity)

\* C30: rag_results never has more than 3 entries, and it is not empty only if
\* needs_rag is true, the query-formulate call succeeded and the search returned
\* from an existing index that is not empty; a run for a workspace without an index
\* answers with the no-context template.
C30_Results ==
    InGraph =>
      /\ Len(run.rag_results) <= 3
      /\ run.rag_results # <<>> =>
            /\ run.needs_rag
            /\ Left("retrieve_context") /\ run.pc \in {"generate_response", "END"}
            /\ run.formulate.ok /\ run.search_status = "returned"
            /\ run.workspace_id \in DOMAIN vector_stores
            /\ Len(vector_stores[run.workspace_id].vectors) > 0
      /\ (run.workspace_id \notin DOMAIN vector_stores /\ Left("generate_response")) =>
            run.template = "NO_RAG_RESPONSE_PROMPT"

C30_Witness ==
    /\ run.pc = "END" /\ Len(run.rag_results) = 3
    /\ Len(vector_stores[run.workspace_id].vectors) = 4
    /\ run.template = "DEFAULT_RESPONSE_PROMPT"

\* C29: a build, rebuild or delete for one workspace leaves the index of every
\* other workspace as it was; a search and a process_message run leave every index
\* as it was; delete_store for a workspace without index changes nothing and
\* completes; and a search for a workspace returns only chunks of that workspace's
\* index.
Index(stores, w) == IF w \in DOMAIN stores THEN Some(stores[w]) ELSE None(NoStore)

C29_Step ==
    /\ \A w \in Workspaces :
          Index(vector_stores', w) # Index(vector_stores, w) =>
             /\ bld' # bld /\ bld'.ws = w
             /\ bld'.op \in {"create", "update", "delete"}
    /\ (srch' # srch \/ run' # run) => vector_stores' = vector_stores
    /\ (bld.pc = "idle" /\ bld'.op = "delete" /\ bld'.ws \notin DOMAIN vector_stores) =>
          vector_stores' = vector_stores /\ bld'.pc = "done"
    /\ \A c \in Callers :
          (srch[c].pc # "done" /\ srch'[c].pc = "done" /\ srch'[c].result # <<>>) =>
             /\ srch[c].ws \in DOMAIN vector_stores
             /\ \A i \in 1..Len(srch'[c].result) :
                   \E j \in 1..Len(vector_stores[srch[c].ws].vectors) :
                      LET v == vector_stores[srch[c].ws].vectors[j]
                      IN  /\ v.text = srch'[c].result[i].text
                          /\ v.metadata = srch'[c].result[i].metadata

C29_Partitioned == [][C29_Step]_vars

C29_Witness ==
    /\ DOMAIN vector_stores = {1, 2}
    /\ vector_stores[1].num_chunks = 1 /\ vector_stores[2].num_chunks = 1
    /\ vector_stores[1].created_at # vector_stores[2].created_at
    /\ bld.ops = 2 /\ bld.pc = "idle"
    /\ run.runs = 1 /\ run.pc = "idle"
    /\ srch["api"].pc = "done" /\ srch["api"].ws = 2 /\ Len(srch["api"].result) = 1
    /\ srch["api"].result[1].metadata = vector_stores[2].vectors[1].metadata

\* every run that enters the graph reaches END
GraphTerminates == (run.pc \notin {"idle", "raised"}) ~> (run.pc = "END")

====
